---------------------------- MODULE Spec2Model ----------------------------
(***************************************************************************)
(* A model of include/defer/defer.hpp: the RAII guard defer::detail::Defer, *)
(* the binder operator|(DeferTaskTag, DeferTaskType) and the `defer` macro, *)
(* driven by a function body that is read statement by statement: blocks    *)
(* are opened and closed, resources of the enclosing scope are acquired,    *)
(* guards are declared, and the function is left by falling through, by an  *)
(* early return or by a thrown error that the caller handles.               *)
(***************************************************************************)
EXTENDS Naturals, Sequences, FiniteSets, TLC

VARIABLES
    elide,     \* which of the two copies of a returned Defer the build elides
    pc,        \* position of the thread of control
    line,      \* source line (__LINE__) of the last marker read (0: none yet)
    scopes,    \* stack of open blocks, innermost last
    nscopes,   \* number of blocks opened so far (ids of blocks)
    objs,      \* every Defer object constructed so far, in construction order
    tasks,     \* every closure created so far (the std::function targets)
    cnt,       \* cnt[t]: how many times the body of closure t was entered
    env,       \* the variables of the enclosing function that closures capture by reference
    cur,       \* the Defer object whose destructor is running (0: none)
    ip,        \* next statement of the task body being run by m_task()
    cont,      \* where control resumes once the running destructor is done
    texc,      \* an exception thrown by m_task() is in flight inside ~Defer
    exc,       \* the error propagating out of the function body ("none" if none)
    exitKind,  \* how the scope being left is left
    target,    \* number of blocks that stay open once the unwinding is done
    pending,   \* name of the variable being initialised by the marker
    expansions \* every expansion of __DEFER_NEWBIE__ so far: its line, its result

vars == <<elide, pc, line, scopes, nscopes, objs, tasks, cnt, env, cur, ip,
          cont, texc, exc, exitKind, target, pending, expansions>>

----------------------------------------------------------------------------
(* Bounds of the model. *)

MaxDecls == 2   \* guard declarations in one function body
MaxDepth == 2   \* nesting depth of blocks (1: the function body itself)
MaxLine  == 2   \* source lines the body is spread over
MaxBlocks == 2  \* blocks opened in one function body, the body included

----------------------------------------------------------------------------
(* The enclosing environment and the task bodies. *)

Res == {"r1", "r2"}

\* A statement of a deferred block.
Release(r) == <<"release", r>>
ThrowStmt  == <<"throw", "">>

\* if (r) release(r);   a statement that reads the captured variable first
ReleaseIfOpen(r) == <<"release_if", r>>

\* The blocks a marker can be followed by.
Bodies ==
    { <<Release("r1")>>,
      <<Release("r2")>>,
      <<Release("r1"), ThrowStmt, Release("r2")>>,
      <<ReleaseIfOpen("r1")>> }

\* An empty std::function<void()>: it has no target.
NullTask == << <<"null", "">> >>

\* using DeferTaskType = std::function<void()>;
DeferTaskType == Bodies \cup {NullTask}

\* The values the constructor is called with directly: an empty function and
\* a function with a target.
DirectArgs == {NullTask, <<Release("r1")>>}

\* The resources a block releases.
Needs(body) == {r \in Res : \E i \in 1..Len(body) : body[i] = Release(r)}

\* The resources a block tests before it releases them.
Tests(body) == {r \in Res : \E i \in 1..Len(body) : body[i] = ReleaseIfOpen(r)}

EnvInit == [r \in Res |-> [st |-> "unset", rel |-> 0]]

\* The effect of one statement of a block on the captured variables ([&]).
\* Mutant: the closure captures by copy ([=]): its statements work on the
\* closure's own copies and the variables themselves are never touched.
Exec_ByValue(stmt, e) == e

\* The closure holds references: a statement reads and writes the variables
\* themselves, as they are when the statement runs.
Exec(stmt, e) ==
    IF stmt[1] = "release" \/ (stmt[1] = "release_if" /\ e[stmt[2]].st = "open")
    THEN [e EXCEPT ![stmt[2]] = [st |-> "closed", rel |-> @.rel + 1]]
    ELSE e

----------------------------------------------------------------------------
(* class Defer *)

\* A DeferTaskType value: the closure it targets (id) and the closure's code.
\* Copies of a std::function target copies of the closure, which hold the
\* same references: they are the same task. An empty function targets no
\* closure (id 0).
Closure(t, body) == [id |-> IF body = NullTask THEN 0 ELSE t, body |-> body]

\* Defer(DeferTaskType task) : m_task(std::move(task)) {}
Defer(task, nm, path, isTemp) ==
    [m_task |-> task, state |-> "Constructed", name |-> nm, path |-> path,
     temp |-> isTemp]

\* The implicitly declared copy constructor: the class declares a destructor
\* and nothing else, so it has no move constructor and copies m_task.
DeferCopy(o, nm, isTemp) ==
    [m_task |-> o.m_task, state |-> "Constructed", name |-> nm,
     path |-> o.path, temp |-> isTemp]

\* The implicitly declared copy assignment operator: the old target of
\* m_task is destroyed without being called and replaced by a copy of src's.
DeferAssign(dst, src) == [dst EXCEPT !.m_task = src.m_task]

Live(o) == objs[o].state # "Invoked"

\* Mutant: a ## b pasted at once, without the two helper macros: an argument
\* of ## is not macro-expanded, so __LINE__ stays the token __LINE__.
DEFER_CONCAT_Unexpanded(a, b) == a \o "__LINE__"

\* __DEFER_CONCAT__(a, b): a ## b after both are macro-expanded.
DEFER_CONCAT(a, b) == a \o b

\* __DEFER_NEWBIE__: __DEFER_CONCAT__(__defer_newbie_, __LINE__)
DEFER_NEWBIE(ln) == DEFER_CONCAT("__defer_newbie_", ToString(ln))

Top == scopes[Len(scopes)]
Path == [i \in 1..Len(scopes) |-> scopes[i].id]
NDecls == Len(tasks)

----------------------------------------------------------------------------
Init ==
    /\ elide \in [{"ret", "init"} -> BOOLEAN]
    /\ pc = "body"
    /\ line = 0
    /\ scopes = << [id |-> 1, guards |-> <<>>, names |-> {}] >>
    /\ nscopes = 1
    /\ objs = <<>>
    /\ tasks = <<>>
    /\ cnt = <<>>
    /\ env = EnvInit
    /\ cur = 0
    /\ ip = 0
    /\ cont = "none"
    /\ texc = FALSE
    /\ exc = "none"
    /\ exitKind = "none"
    /\ target = 0
    /\ pending = ""
    /\ expansions = <<>>

----------------------------------------------------------------------------
(* Statements of the function body. *)

\* {
EnterBlock ==
    /\ pc = "body"
    /\ Len(scopes) < MaxDepth
    /\ nscopes < MaxBlocks
    /\ nscopes' = nscopes + 1
    /\ scopes' = Append(scopes, [id |-> nscopes + 1, guards |-> <<>>, names |-> {}])
    /\ UNCHANGED <<elide, expansions, pc, line, objs, tasks, cnt, env, cur, ip, cont, texc,
                   exc, exitKind, target, pending>>

StartUnwind(kind, depth) ==
    /\ pc' = "unwind"
    /\ exitKind' = kind
    /\ target' = depth

\* R* r = acquire(); if (!r) return;     (the usage example of the macro)
\* The function acquires r1 before r2.
Acquire(r, ok) ==
    /\ pc = "body"
    /\ env[r].st = "unset"
    /\ r = "r2" => env["r1"].st # "unset"
    /\ IF ok
       THEN /\ env' = [env EXCEPT ![r].st = "open"]
            /\ UNCHANGED <<pc, exitKind, target>>
       ELSE /\ StartUnwind("return", 0)
            /\ UNCHANGED env
    /\ UNCHANGED <<elide, expansions, line, scopes, nscopes, objs, tasks, cnt, cur, ip,
                   cont, texc, exc, pending>>

\* A block releases only resources the function holds at that point; a block
\* that tests a resource is registered in the function body itself, before
\* the resource is acquired
\* (R* r = nullptr; defer { if (r) release(r); }; r = acquire();).
\* defer { body };   written on the line of the marker before it (nl = 0) or
\* on a later line (nl = 1), expands to
\* const auto __defer_newbie_<line> = DeferTaskTag{} | [&]() mutable -> void { body };
\* The declaration is ill-formed when the block already declares that name.
\* Otherwise the closure is converted to a DeferTaskType and operator| is
\* entered, where Defer(std::move(task)) constructs the object to return.
MarkerDeclare(body, nl) ==
    /\ pc = "body"
    /\ NDecls < MaxDecls
    /\ \A r \in Needs(body) : env[r].st = "open"
    /\ \A r \in Tests(body) : env[r].st = "unset"
    /\ Tests(body) # {} => Len(scopes) = 1
    /\ line + nl <= MaxLine
    /\ nl = 0 => line >= 1
    /\ line' = line + nl
    /\ LET nm == DEFER_NEWBIE(line + nl) IN
       IF nm \in Top.names
       THEN /\ pc' = "illformed"
            /\ UNCHANGED <<objs, tasks, cnt, pending>>
       ELSE /\ tasks' = Append(tasks, body)
            /\ cnt' = Append(cnt, 0)
            /\ objs' = Append(objs, Defer(Closure(NDecls + 1, body), nm, Path, TRUE))
            /\ pending' = nm
            /\ pc' = "ret"
    /\ expansions' = Append(expansions, [line |-> line + nl,
                                         name |-> DEFER_NEWBIE(line + nl)])
    /\ UNCHANGED <<elide, scopes, nscopes, env, cur, ip, cont, texc, exc,
                   exitKind, target>>

\* Mutant: the guard is made a variable of the function body, not of the
\* block the marker is written in.
Bind_Outermost(o, nm) ==
    scopes' = [scopes EXCEPT ![1] =
                  [@ EXCEPT !.guards = Append(@, o), !.names = @ \cup {nm}]]

\* const auto <name> = ...;   a variable of the innermost open block
Bind(o, nm) ==
    scopes' = [scopes EXCEPT ![Len(scopes)] =
                  [@ EXCEPT !.guards = Append(@, o), !.names = @ \cup {nm}]]

\* Defer operator|(DeferTaskTag, DeferTaskType task) { return Defer(std::move(task)); }
\* The returned temporary either is the result object (the copy is elided) or
\* is copied into it and destroyed as the function returns.
OperatorPipe ==
    /\ pc = "ret"
    /\ LET a == Len(objs) IN
       IF elide["ret"]
       THEN /\ pc' = "init"
            /\ UNCHANGED <<objs, cur, cont>>
       ELSE /\ objs' = Append(objs, DeferCopy(objs[a], pending, TRUE))
            /\ cur' = a
            /\ cont' = "init"
            /\ pc' = "dtor"
    /\ UNCHANGED <<elide, expansions, line, scopes, nscopes, tasks, cnt, env, ip, texc, exc,
                   exitKind, target, pending>>

\* const auto __DEFER_NEWBIE__ = <result of operator|>
\* The result object either is the variable (the copy is elided) or is copied
\* into the variable and destroyed at the end of the full-expression.
MarkerInit ==
    /\ pc = "init"
    /\ LET r == Len(objs) IN
       IF elide["init"]
       THEN /\ objs' = [objs EXCEPT ![r].temp = FALSE]
            /\ Bind(r, pending)
            /\ pc' = "body"
            /\ UNCHANGED <<cur, cont>>
       ELSE /\ objs' = Append(objs, DeferCopy(objs[r], pending, FALSE))
            /\ Bind(r + 1, pending)
            /\ cur' = r
            /\ cont' = "body"
            /\ pc' = "dtor"
    /\ pending' = ""
    /\ UNCHANGED <<elide, expansions, line, nscopes, tasks, cnt, env, ip, texc, exc,
                   exitKind, target>>

\* ::defer::detail::Defer g(task);   the constructor used without the marker
DirectDeclare(t) ==
    /\ pc = "body"
    /\ NDecls < MaxDecls
    /\ \A r \in Needs(t) : env[r].st = "open"
    /\ LET nm == "g" \o ToString(NDecls + 1) IN
       /\ tasks' = Append(tasks, t)
       /\ cnt' = Append(cnt, 0)
       /\ objs' = Append(objs, Defer(Closure(NDecls + 1, t), nm, Path, FALSE))
       /\ Bind(Len(objs) + 1, nm)
    /\ UNCHANGED <<elide, expansions, pc, line, nscopes, env, cur, ip, cont, texc, exc,
                   exitKind, target, pending>>

\* The marker declares its variable `const auto`; a guard made with the
\* constructor is a variable the caller names and may assign to.
IsConst(o) == \E l \in 1..MaxLine : objs[o].name = DEFER_NEWBIE(l)

\* a = b;   for two guards made with the constructor, both in scope, a the
\* one declared later
Assign(a, b) ==
    /\ pc = "body"
    /\ a > b
    /\ ~objs[a].temp /\ ~objs[b].temp
    /\ ~IsConst(a) /\ ~IsConst(b)
    /\ \A o \in {a, b} :
          \E i \in 1..Len(scopes) : scopes[i].id = objs[o].path[Len(objs[o].path)]
    /\ objs[a].m_task # objs[b].m_task
    /\ objs' = [objs EXCEPT ![a] = DeferAssign(objs[a], objs[b])]
    /\ UNCHANGED <<elide, expansions, pc, line, scopes, nscopes, tasks, cnt, env, cur, ip,
                   cont, texc, exc, exitKind, target, pending>>

\* }   control falls through the end of the innermost block
ExitBlock ==
    /\ pc = "body"
    /\ StartUnwind("fallthrough", Len(scopes) - 1)
    /\ UNCHANGED <<elide, expansions, line, scopes, nscopes, objs, tasks, cnt, env, cur, ip,
                   cont, texc, exc, pending>>

\* return;
Return ==
    /\ pc = "body"
    /\ StartUnwind("return", 0)
    /\ UNCHANGED <<elide, expansions, line, scopes, nscopes, objs, tasks, cnt, env, cur, ip,
                   cont, texc, exc, pending>>

\* throw BodyError();   handled by the caller of the function
Throw ==
    /\ pc = "body"
    /\ exc' = "BodyError"
    /\ StartUnwind("throw", 0)
    /\ UNCHANGED <<elide, expansions, line, scopes, nscopes, objs, tasks, cnt, env, cur, ip,
                   cont, texc, pending>>

----------------------------------------------------------------------------
(* Leaving blocks: the guards of a block are automatic variables. *)

\* Mutant: the guards of a block are run in the order of their declaration.
NextToDestroy_Oldest(guards) == guards[1]

\* The guard variable is a local of automatic storage duration: of the
\* variables of a block still alive, the one declared last is destroyed first.
NextToDestroy(guards) == guards[Len(guards)]

UnwindDestroy ==
    /\ pc = "unwind"
    /\ Top.guards # <<>>
    /\ LET g == NextToDestroy(Top.guards) IN
       /\ cur' = g
       /\ scopes' = [scopes EXCEPT ![Len(scopes)].guards =
                        SelectSeq(@, LAMBDA x : x # g)]
    /\ cont' = "unwind"
    /\ pc' = "dtor"
    /\ UNCHANGED <<elide, expansions, line, nscopes, objs, tasks, cnt, env, ip, texc, exc,
                   exitKind, target, pending>>

UnwindPop ==
    /\ pc = "unwind"
    /\ Top.guards = <<>>
    /\ scopes' = SubSeq(scopes, 1, Len(scopes) - 1)
    /\ IF Len(scopes) - 1 > target
       THEN UNCHANGED <<pc, exitKind>>
       ELSE IF exitKind = "throw"
            THEN pc' = "handled" /\ UNCHANGED exitKind
            ELSE IF target = 0
                 THEN pc' = "returned" /\ UNCHANGED exitKind
                 ELSE pc' = "body" /\ exitKind' = "none"
    /\ UNCHANGED <<elide, expansions, line, nscopes, objs, tasks, cnt, env, cur, ip, cont,
                   texc, exc, target, pending>>

----------------------------------------------------------------------------
(* ~Defer() noexcept { try { m_task(); } catch (...) {} } *)

\* Mutant: the task is called without the check for an empty function, as
\* through a plain function pointer: calling an empty one ends the process.
CallTask_Unchecked ==
    LET f == objs[cur].m_task IN
    /\ objs' = [objs EXCEPT ![cur].state = "Invoking"]
    /\ IF f.body = NullTask
       THEN /\ pc' = "terminated"
            /\ UNCHANGED <<cnt, ip, texc>>
       ELSE /\ cnt' = [cnt EXCEPT ![f.id] = @ + 1]
            /\ ip' = 1
            /\ pc' = "task"
            /\ UNCHANGED texc

\* m_task(): the call operator of std::function enters the target, or throws
\* std::bad_function_call when there is none.
CallTask ==
    LET f == objs[cur].m_task IN
    /\ objs' = [objs EXCEPT ![cur].state = "Invoking"]
    /\ IF f.body = NullTask
       THEN /\ texc' = TRUE
            /\ pc' = "catch"
            /\ UNCHANGED <<cnt, ip>>
       ELSE /\ cnt' = [cnt EXCEPT ![f.id] = @ + 1]
            /\ ip' = 1
            /\ pc' = "task"
            /\ UNCHANGED texc

\* Mutant: the destructor leaves the task out while an error is propagating.
Invoke_UnlessUnwinding ==
    /\ pc = "dtor"
    /\ IF exc # "none"
       THEN /\ objs' = [objs EXCEPT ![cur].state = "Invoked"]
            /\ pc' = cont
            /\ UNCHANGED <<cnt, ip, texc>>
       ELSE CallTask
    /\ UNCHANGED <<elide, expansions, line, scopes, nscopes, tasks, env, cur, cont, exc,
                   exitKind, target, pending>>

\* The destructor enters its try block and calls the task.
Invoke ==
    /\ pc = "dtor"
    /\ CallTask
    /\ UNCHANGED <<elide, expansions, line, scopes, nscopes, tasks, env, cur, cont, exc,
                   exitKind, target, pending>>

\* One statement of the deferred block.
TaskStep ==
    /\ pc = "task"
    /\ LET body == objs[cur].m_task.body IN
       /\ ip <= Len(body)
       /\ IF body[ip] = ThrowStmt
          THEN /\ texc' = TRUE
               /\ pc' = "catch"
               /\ UNCHANGED <<env, ip>>
          ELSE /\ env' = Exec(body[ip], env)
               /\ ip' = ip + 1
               /\ UNCHANGED <<texc, pc>>
    /\ UNCHANGED <<elide, expansions, line, scopes, nscopes, objs, tasks, cnt, cur, cont,
                   exc, exitKind, target, pending>>

\* The end of the destructor: m_task is destroyed and control resumes.
DtorFinish ==
    /\ objs' = [objs EXCEPT ![cur].state = "Invoked"]
    /\ cur' = 0
    /\ ip' = 0
    /\ pc' = cont
    /\ cont' = "none"

\* The deferred block returns.
TaskReturn ==
    /\ pc = "task"
    /\ ip > Len(objs[cur].m_task.body)
    /\ DtorFinish
    /\ UNCHANGED <<elide, expansions, line, scopes, nscopes, tasks, cnt, env, texc, exc,
                   exitKind, target, pending>>

\* Mutant: no handler, the error leaves the noexcept destructor and
\* std::terminate is called.
DtorCatch_Escapes ==
    /\ pc = "catch"
    /\ pc' = "terminated"
    /\ UNCHANGED <<elide, expansions, line, scopes, nscopes, objs, tasks, cnt, env, cur,
                   ip, cont, texc, exc, exitKind, target, pending>>

\* Mutant: the handler calls the task again.
DtorCatch_Retries ==
    /\ pc = "catch"
    /\ texc' = FALSE
    /\ IF objs[cur].m_task.id = 0
       THEN DtorFinish /\ UNCHANGED cnt
       ELSE /\ cnt' = [cnt EXCEPT ![objs[cur].m_task.id] = @ + 1]
            /\ ip' = 1
            /\ pc' = "task"
            /\ UNCHANGED <<objs, cur, cont>>
    /\ UNCHANGED <<elide, expansions, line, scopes, nscopes, tasks, env, exc, exitKind,
                   target, pending>>

\* Mutant: the handler keeps the task's error as the error that goes on
\* propagating when the destructor runs during unwinding.
DtorCatch_Replaces ==
    /\ pc = "catch"
    /\ texc' = FALSE
    /\ exc' = IF exc = "none" THEN exc ELSE "TaskError"
    /\ DtorFinish
    /\ UNCHANGED <<elide, expansions, line, scopes, nscopes, tasks, cnt, env, exitKind,
                   target, pending>>

\* catch (...) {}
DtorCatch ==
    /\ pc = "catch"
    /\ texc' = FALSE
    /\ DtorFinish
    /\ UNCHANGED <<elide, expansions, line, scopes, nscopes, tasks, cnt, env, exc,
                   exitKind, target, pending>>

----------------------------------------------------------------------------
Next ==
    \/ EnterBlock
    \/ \E r \in Res, ok \in BOOLEAN : Acquire(r, ok)
    \/ \E b \in Bodies, nl \in {0, 1} : MarkerDeclare(b, nl)
    \/ OperatorPipe
    \/ MarkerInit
    \/ \E t \in DirectArgs : DirectDeclare(t)
    \/ \E a, b \in 1..Len(objs) : Assign(a, b)
    \/ ExitBlock
    \/ Return
    \/ Throw
    \/ UnwindDestroy
    \/ UnwindPop
    \/ Invoke
    \/ TaskStep
    \/ TaskReturn
    \/ DtorCatch

Spec == Init /\ [][Next]_vars

----------------------------------------------------------------------------
(* Vocabulary of the properties. *)

Objs == 1..Len(objs)

\* The guard variables: the Defer objects that are not temporaries.
Guards == {o \in Objs : ~objs[o].temp}

BodyOf(o) == objs[o].m_task.body
TaskOf(o) == objs[o].m_task.id
Invoked(o) == objs[o].state = "Invoked"

\* How many times the task the guard holds was entered (an empty function
\* has no task to enter).
Entered(o) == IF TaskOf(o) = 0 THEN 0 ELSE cnt[TaskOf(o)]
Raises(body) == \E i \in 1..Len(body) : body[i] = ThrowStmt

InDtor == pc \in {"dtor", "task", "catch"}
Unwinding == pc = "unwind" \/ (InDtor /\ cont = "unwind")
Declaring == pc \in {"ret", "init"} \/ (InDtor /\ cont \in {"init", "body"})
Finished == pc \in {"returned", "handled"}

ScopeOf(o) == objs[o].path[Len(objs[o].path)]
ScopeOpen(id) == \E i \in 1..Len(scopes) : scopes[i].id = id
IsProperPrefix(p, q) == Len(p) < Len(q) /\ SubSeq(q, 1, Len(p)) = p

\* The guard's block is closed, or is the innermost block and is being left.
AtScopeExit(o) ==
    \/ ~ScopeOpen(ScopeOf(o))
    \/ Unwinding /\ Top.id = ScopeOf(o)

\* The guard was declared with the marker.
ViaMarker(o) == IsConst(o)

\* The temporaries a marker's declaration goes through in this build.
Temps == (IF elide["ret"] THEN 0 ELSE 1) + (IF elide["init"] THEN 0 ELSE 1)

\* The statements of a block that release r and lie before its raising point.
Before(body, r) ==
    {i \in 1..Len(body) :
        body[i] = Release(r) /\ \A j \in 1..i : body[j] # ThrowStmt}

RECURSIVE Activations(_, _)
Activations(n, r) ==
    IF n = 0 THEN 0
    ELSE Activations(n - 1, r) + cnt[n] * Cardinality(Before(tasks[n], r))

\* How many statements `release(r);` the tasks entered so far have run: all
\* those before the raising point, but for the ones the running task has
\* yet to reach.
Executed(r) ==
    Activations(Len(tasks), r)
      - (IF pc = "task"
         THEN Cardinality({i \in Before(BodyOf(cur), r) : i >= ip})
         ELSE 0)

\* The guard's block is one of the blocks the exit in progress leaves.
BeingLeft(o) ==
    /\ exitKind # "none"
    /\ \E i \in 1..Len(scopes) : scopes[i].id = ScopeOf(o) /\ i > target

\* Guard o is a guard of the block of guard g or of a block enclosing it.
Encloses(o, g) ==
    objs[o].path = objs[g].path \/ IsProperPrefix(objs[o].path, objs[g].path)

----------------------------------------------------------------------------
(* C1: the task of a guard is entered exactly once, at the guard's          *)
(* destruction: its count is 0 as long as the guard variable has not begun  *)
(* to be destroyed, 1 once it is destroyed, and never more than 1, whatever *)
(* temporary Defer objects the declaration goes through.                    *)
C1_InvokedExactlyOnce ==
    \A t \in 1..Len(tasks) :
        (\E o \in Objs : TaskOf(o) = t /\ ViaMarker(o)) =>
            LET G == {o \in Guards : TaskOf(o) = t} IN
            /\ cnt[t] <= 1
            /\ (\A o \in G : objs[o].state = "Constructed") => cnt[t] = 0
            /\ (\E o \in G : Invoked(o)) => cnt[t] = 1

(* C2: an error raised by a task never leaves the destructor: the process  *)
(* is not terminated, the error is in flight only inside the try block, the *)
(* only error a caller sees is the one the function body threw itself, and  *)
(* a function left by return or fall-through returns normally.              *)
C2_TaskErrorNeverPropagates ==
    /\ pc # "terminated"
    /\ texc => pc = "catch"
    /\ exc \in {"none", "BodyError"}
    /\ exc = "BodyError" <=> exitKind = "throw"
    /\ pc = "returned" => exc = "none"

C2_Witness ==
    /\ pc = "returned"
    /\ exc = "none"
    /\ \E o \in Guards : Raises(BodyOf(o)) /\ Invoked(o) /\ Entered(o) >= 1

(* C3: of two guards of the same block, the one declared later has finished *)
(* its invocation before the one declared earlier begins its own.           *)
C3_ReverseOrder ==
    \A a, b \in Guards :
        (a < b /\ objs[a].path = objs[b].path /\ objs[a].state # "Constructed")
            => Invoked(b)

C3_Witness ==
    \E a, b \in Guards :
        /\ a < b
        /\ objs[a].path = objs[b].path
        /\ objs[a].state = "Invoking"
        /\ Invoked(b)
        /\ Entered(b) >= 1

(* C4: whichever way a block is left (fall-through, early return, error    *)
(* propagating to the caller), every guard of it has been destroyed and its *)
(* task entered by the time the block is closed, the function ends with all *)
(* blocks closed, and leaving a block never gets stuck.                     *)
C4_EveryExitInvokes ==
    /\ \A o \in Guards :
          ~ScopeOpen(ScopeOf(o)) =>
              /\ Invoked(o)
              /\ BodyOf(o) # NullTask => Entered(o) >= 1
    /\ Finished => scopes = <<>>
    /\ pc = "handled" <=> (exitKind = "throw" /\ scopes = <<>>)
    /\ (pc = "unwind" \/ InDtor) => ENABLED Next

C4_Witness ==
    /\ pc = "handled"
    /\ \E o \in Guards :
          /\ Len(objs[o].path) = 2
          /\ Invoked(o)
          /\ Entered(o) >= 1

(* C5: a guard of a nested block is destroyed when that block is left, not *)
(* before and not later, and has finished its invocation before any guard   *)
(* of an enclosing block begins its own.                                    *)
C5_NestedBeforeEnclosing ==
    \A n \in Guards :
        Len(objs[n].path) > 1 =>
            /\ ~ScopeOpen(ScopeOf(n)) => Invoked(n)
            /\ objs[n].state # "Constructed" => AtScopeExit(n)
            /\ \A e \in Guards :
                  (IsProperPrefix(objs[e].path, objs[n].path)
                      /\ objs[e].state # "Constructed") => Invoked(n)

C5_Witness ==
    \E e, n \in Guards :
        /\ e < n
        /\ IsProperPrefix(objs[e].path, objs[n].path)
        /\ Invoked(n)
        /\ Entered(n) >= 1
        /\ objs[e].state = "Constructed"
        /\ pc = "body"

(* C6: a marker written in a block never collides with the name of another *)
(* marker's variable of that block: the declaration is never ill-formed.    *)
C6_NoNameCollision == pc # "illformed"

(* C7: in the function that acquires r1, declares a guard releasing r1,    *)
(* acquires r2 and declares a guard releasing r2, each resource is released *)
(* at most once at any time, exactly once when the function has been left,  *)
(* and r1 is not released before r2.                                        *)
C7_Scenario ==
    \E g1, g2 \in Guards :
        /\ g1 < g2
        /\ objs[g1].path = <<1>> /\ objs[g2].path = <<1>>
        /\ ViaMarker(g1) /\ ViaMarker(g2)
        /\ BodyOf(g1) = <<Release("r1")>>
        /\ BodyOf(g2) = <<Release("r2")>>

C7_ReleasedOnceEachInReverse ==
    C7_Scenario =>
        /\ \A r \in Res : env[r].rel <= 1
        /\ Finished => \A r \in Res : env[r].rel = 1
        /\ env["r1"].rel >= 1 => env["r2"].rel >= 1

(* C8: no two live Defer objects hold the same task.                       *)
C8_SingleOwner ==
    \A a, b \in Objs :
        (a # b /\ Live(a) /\ Live(b) /\ TaskOf(a) # 0) => TaskOf(a) # TaskOf(b)

(* C9: from its construction to its destruction the k-th guard holds the   *)
(* task the k-th declaration was given (nothing replaces or cancels it), it *)
(* leaves the Constructed state only when its block is left (nothing runs   *)
(* it early), and the task entered by its destructor is that task.          *)
C9_TaskFixedAtConstruction ==
    \A o \in Guards :
        LET k == Cardinality({g \in Guards : g <= o}) IN
        /\ objs[o].m_task = Closure(k, tasks[k])
        /\ objs[o].state # "Constructed" => AtScopeExit(o)
        /\ (Invoked(o) /\ tasks[k] # NullTask) => cnt[k] >= 1

(* C10: a declaration of a guard, from the marker or the constructor to    *)
(* the point after the declaration, changes no variable of the enclosing    *)
(* function and enters no task.                                             *)
C10_ConstructionHasNoEffect ==
    [][(Declaring \/ Len(tasks') > Len(tasks))
          => (env' = env /\ \A t \in 1..Len(cnt) : cnt'[t] = cnt[t])]_vars

(* C11: the block works on the enclosing variables themselves. A guard  *)
(* of the function body whose block is `if (r) release(r);`, registered    *)
(* while r is not yet acquired, has read r as it is when the function is    *)
(* left and has written to r itself: once the guard is destroyed r is not   *)
(* left open, and r is released only if it was acquired.                    *)
C11_SeesVariablesByReference ==
    \A o \in Guards, r \in Res :
        (BodyOf(o) = <<ReleaseIfOpen(r)>> /\ objs[o].path = <<1>> /\ Invoked(o))
            => /\ env[r].st # "open"
               /\ (env[r].st = "unset") <=> (env[r].rel = 0)

C11_Witness ==
    /\ pc = "returned"
    /\ Len(tasks) = 1
    /\ \E o \in Guards :
          /\ ViaMarker(o)
          /\ BodyOf(o) = <<ReleaseIfOpen("r1")>>
          /\ Invoked(o)
          /\ env["r1"] = [st |-> "closed", rel |-> 1]

(* C12: while the function is left by the error its body threw, that     *)
(* error stays the propagating error whatever the tasks run by the          *)
(* unwinding raise: the unwinding goes on, the process is not terminated,   *)
(* and the caller's handler receives the body's error.                      *)
C12_OriginalErrorKeepsPropagating ==
    exitKind = "throw" =>
        /\ exc = "BodyError"
        /\ pc \in {"unwind", "dtor", "task", "catch", "handled"}
        /\ scopes = <<>> => pc = "handled"

C12_Witness ==
    /\ pc = "handled"
    /\ exc = "BodyError"
    /\ elide["ret"] /\ elide["init"]
    /\ \E o \in Guards : Raises(BodyOf(o)) /\ Invoked(o) /\ Entered(o) = 1

(* C13: a guard whose task raises does not stop the guards declared      *)
(* before it in its block and in the enclosing blocks. Such an older guard  *)
(* begins only after the raising guard has finished; while its block is     *)
(* still to be left the unwinding goes on; once its block is closed it is   *)
(* Invoked; and its own destruction has entered its task once, no more and  *)
(* no less (for a marker's guard: once on top of the entries made by the    *)
(* temporaries of its declaration).                                         *)
C13_RaisingTaskStopsNoOtherGuard ==
    \A g, o \in Guards :
        (Raises(BodyOf(g)) /\ o < g /\ Encloses(o, g)
             /\ objs[g].state # "Constructed")
            => /\ objs[o].state # "Constructed" => Invoked(g)
               /\ (objs[o].state = "Constructed" /\ BeingLeft(o))
                     => pc \in {"unwind", "dtor", "task", "catch"}
               /\ ~ScopeOpen(ScopeOf(o)) => Invoked(o)
               /\ ViaMarker(o) =>
                     /\ objs[o].state = "Constructed" => cnt[TaskOf(o)] = Temps
                     /\ Invoked(o) => cnt[TaskOf(o)] = Temps + 1

C13_Witness ==
    /\ Finished
    /\ elide["ret"] /\ elide["init"]
    /\ \E g, o \in Guards :
          /\ o < g
          /\ IsProperPrefix(objs[o].path, objs[g].path)
          /\ Raises(BodyOf(g)) /\ Invoked(g) /\ Entered(g) = 1
          /\ ViaMarker(o) /\ Invoked(o) /\ Entered(o) = 1

(* C14: a task that raises partway is neither resumed, retried nor rolled *)
(* back. Control never passes the raising point; what the enclosing         *)
(* variables show is exactly what the statements before the raising points  *)
(* did (r2, which no block releases conditionally) or at least that (r1);   *)
(* and the guard of a raising block has entered its task once when it       *)
(* begins its destruction and still so when it is Invoked, which it is once *)
(* its block is closed.                                                     *)
C14_NeitherRetriedNorRolledBack ==
    /\ (pc \in {"task", "catch"} /\ Raises(BodyOf(cur)))
          => \A j \in 1..(ip - 1) : BodyOf(cur)[j] # ThrowStmt
    /\ pc = "catch" => (BodyOf(cur) = NullTask \/ BodyOf(cur)[ip] = ThrowStmt)
    /\ \A r \in Res :
          LET n == Executed(r) IN
          IF \E t \in 1..Len(tasks) : r \in Tests(tasks[t])
          THEN env[r].rel >= n
          ELSE env[r].rel = n
    /\ \A o \in Guards :
          (Raises(BodyOf(o)) /\ ViaMarker(o)) =>
              /\ objs[o].state # "Constructed" => cnt[TaskOf(o)] = Temps + 1
              /\ objs[o].state = "Invoking" => (cur = o /\ InDtor)
              /\ ~ScopeOpen(ScopeOf(o)) => Invoked(o)

C14_Witness ==
    /\ pc = "returned"
    /\ elide["ret"] /\ elide["init"]
    /\ Len(tasks) = 1
    /\ \E o \in Guards :
          /\ BodyOf(o) = <<Release("r1"), ThrowStmt, Release("r2")>>
          /\ Invoked(o)
          /\ cnt[TaskOf(o)] = 1
    /\ env["r1"] = [st |-> "closed", rel |-> 1]
    /\ env["r2"] = [st |-> "open", rel |-> 0]

(* C15: the destructor of a guard that holds an empty function makes two *)
(* steps and no other: the call is attempted and raises the invalid-call    *)
(* error without entering any block, then the handler ends that error and   *)
(* the guard is Invoked with control back where the destructor was entered. *)
(* Neither step changes a variable of the enclosing function, the count of  *)
(* any task or the error in flight in the function body, and the process is *)
(* not terminated.                                                          *)
C15_EmptyTaskIsSafeToDestroy ==
    [][(cur # 0 /\ BodyOf(cur) = NullTask) =>
          /\ env' = env
          /\ cnt' = cnt
          /\ exc' = exc
          /\ pc' # "terminated"
          /\ \/ pc = "dtor" /\ pc' = "catch" /\ texc'
             \/ pc = "catch" /\ ~texc' /\ pc' = cont
                   /\ objs'[cur].state = "Invoked"]_vars

C15_Witness ==
    /\ pc = "returned"
    /\ exc = "none"
    /\ env = EnvInit
    /\ \E o \in Guards : BodyOf(o) = NullTask /\ Invoked(o)

====
